---- MODULE Spec2Model ----
(***************************************************************************)
(* Model of spotify_bot.py: a Telegram bot that relays chat commands to    *)
(* the Spotify catalog and formats the returned records as chat messages.  *)
(*                                                                         *)
(* Text is a sequence of one-character strings; the command token of a     *)
(* message ("/cari") is the character "/" followed by the command name as  *)
(* one atom.  Emoji of the message templates are left out of the template  *)
(* names; the backquote character is written "backtick".                   *)
(***************************************************************************)
EXTENDS Integers, Sequences, FiniteSets, TLC

VARIABLES pc, msg, disp, frame, hist

vars == <<pc, msg, disp, frame, hist>>

\* ------------------------------------------------------------------ bounds
\* Largest number of matching items the catalog holds for one query.
MaxMatches == 11

\* Handler invocations that may be in flight together.
Inv == {1, 2}

\* ------------------------------------------------------------- text helpers
Min(a, b) == IF a < b THEN a ELSE b

Take(s, n) == SubSeq(s, 1, Min(n, Len(s)))

RECURSIVE Join(_, _)
\* sep.join(parts)
Join(parts, sep) ==
    IF parts = <<>> THEN <<>>
    ELSE IF Len(parts) = 1 THEN parts[1]
    ELSE parts[1] \o sep \o Join(Tail(parts), sep)

CommaSep == <<",", " ">>

\* telegram.helpers.escape_markdown, version=2: the characters escaped for
\* the given entity type.
EscapeChars(entity_type) ==
    IF entity_type \in {"pre", "code"} THEN {"\\", "backtick"}
    ELSE IF entity_type \in {"text_link", "custom_emoji"} THEN {"\\", ")"}
    ELSE {"\\", "_", "*", "[", "]", "(", ")", "~", "backtick", ">", "#", "+", "-",
          "=", "|", "{", "}", ".", "!"}

RECURSIVE escape_markdown(_, _)
escape_markdown(text, entity_type) ==
    IF text = <<>> THEN <<>>
    ELSE (IF Head(text) \in EscapeChars(entity_type)
          THEN <<"\\", Head(text)>> ELSE <<Head(text)>>)
         \o escape_markdown(Tail(text), entity_type)

\* -------------------------------------------------------------- catalog data
UrlPlain == <<"h", "/", "x">>
UrlParen == <<"h", "/", "(", "x", ")">>

ArtistP == [id |-> "ar1", name |-> <<"a">>, genres |-> <<>>,
            popularity |-> 0, images |-> <<>>,
            external_urls |-> [spotify |-> UrlPlain]]
ArtistS == [id |-> "ar2", name |-> <<"T", "*">>,
            genres |-> << <<"p", "o", "p">>, <<"r", "-", "b">> >>,
            popularity |-> 100, images |-> <<[url |-> "img_ar2"]>>,
            external_urls |-> [spotify |-> UrlParen]]
Artists == {ArtistP, ArtistS}

AlbumP == [id |-> "al1", name |-> <<"a">>, artists |-> <<[name |-> <<"a">>]>>,
           release_date |-> <<"2", "0">>, total_tracks |-> 1,
           genres |-> <<>>, images |-> <<>>,
           external_urls |-> [spotify |-> UrlPlain]]
AlbumS == [id |-> "al2", name |-> <<"_", "b">>,
           artists |-> <<[name |-> <<"a">>], [name |-> <<"T", "*">>]>>,
           release_date |-> <<"2", "0", "-", "1">>, total_tracks |-> 12,
           genres |-> << <<"p", "o", "p">> >>,
           images |-> <<[url |-> "img_al2"], [url |-> "img_al2_small"]>>,
           external_urls |-> [spotify |-> UrlParen]]
Albums == {AlbumP, AlbumS}

TrackP == [name |-> <<"a">>, artists |-> <<[name |-> <<"a">>]>>,
           album |-> [name |-> <<"a">>, images |-> <<>>],
           external_urls |-> [spotify |-> UrlPlain]]
TrackS == [name |-> <<"s", "!">>,
           artists |-> <<[name |-> <<"T", "*">>], [name |-> <<"a">>]>>,
           album |-> [name |-> <<"_", "b">>,
                      images |-> <<[url |-> "img_al2"]>>],
           external_urls |-> [spotify |-> UrlParen]]
Tracks == {TrackP, TrackS}

\* A list of n items alternating a, b.
Alt(n, a, b) == [k \in 1..n |-> IF k % 2 = 1 THEN a ELSE b]

\* What the catalog holds for one query at the time of a call: either the
\* call fails (ok = FALSE) or it has a list of matching items.
Failing == [ok |-> FALSE, items |-> <<>>]

Matches(R, max) ==
    {Failing} \cup {[ok |-> TRUE, items |-> Alt(n, a, b)] :
                        n \in 0..max, a \in R, b \in R}

\* The catalog of the sequential specification and the smaller one of the
\* concurrent specification.
Rich == [tracks  |-> Matches(Tracks, MaxMatches),
         albums  |-> Matches(Albums, MaxMatches),
         artists |-> Matches(Artists, MaxMatches)]

Small == [tracks  |-> Matches({TrackS}, 2),
          albums  |-> Matches({AlbumS}, 2),
          artists |-> Matches({ArtistS}, 2)]

\* ------------------------------------------------------ the catalog client
\* A catalog call as observed at the client: its parameters, what the
\* catalog held (world) and what the client got back (resp).
CallEv(api, q, typ, limit, offset, id, world, resp) ==
    [ev |-> "call", api |-> api, q |-> q, typ |-> typ, limit |-> limit,
     offset |-> offset, id |-> id, world |-> world, resp |-> resp]

\* sp.search(q, limit, type, offset): at most limit items
sp_search(world, limit) ==
    IF world.ok THEN [ok |-> TRUE, items |-> Take(world.items, limit)]
    ELSE Failing

\* sp.new_releases(limit)
sp_new_releases(world, limit) ==
    IF world.ok THEN [ok |-> TRUE, items |-> Take(world.items, limit)]
    ELSE Failing

\* sp.album(album_id): the full album of that id, or an error
sp_album(world, album_id) ==
    IF world.ok /\ world.items # <<>>
    THEN [ok |-> TRUE, items |-> <<[world.items[1] EXCEPT !.id = album_id]>>]
    ELSE Failing

\* sp.artist_albums(artist_id, album_type, limit)
sp_artist_albums(world, limit) ==
    IF world.ok THEN [ok |-> TRUE, items |-> Take(world.items, limit)]
    ELSE Failing

\* sp.artist_top_tracks(artist_id, country)
sp_artist_top_tracks(world) == world

\* sp.artist_related_artists(artist_id)
sp_artist_related_artists(world) == world

\* --------------------------------------------------------- incoming messages
W1 == <<"a">>
W2 == <<"T", "*">>

Space == <<" ">>

\* The commands main() registers, and one it does not.
Registered == {"start", "help", "cari", "album", "getalbum", "randomalbum",
               "getnewreleases", "artist", "getartist", "randomartist",
               "getartistalbums", "gettoptracks", "getrelated"}

Unregistered == {"foo"}

ArgLists == {<<>>, <<W1>>, <<W2, W1>>}

\* A text message: a command (cmd # "") followed by words, or free text
\* (cmd = "") of at least one word.
Messages ==
    {[cmd |-> c, words |-> w] : c \in Registered \cup Unregistered,
                                w \in ArgLists}
    \cup {[cmd |-> "", words |-> w] : w \in ArgLists \ {<<>>}}

ConcMessages ==
    {[cmd |-> c, words |-> <<W2>>] : c \in Registered \cup Unregistered \cup {""}}

NoMsg == [cmd |-> "", words |-> <<>>]

\* update.message.text
Text(m) ==
    IF m.cmd = "" THEN Join(m.words, Space)
    ELSE <<"/", m.cmd>> \o
         (IF m.words = <<>> THEN <<>> ELSE Space \o Join(m.words, Space))

\* filters.COMMAND: the text starts with a bot command
IsCommand(m) == Text(m) # <<>> /\ Head(Text(m)) = "/"

\* context.args: the words after the command for a CommandHandler, None
\* (also falsy) for a MessageHandler
Args(m) == IF IsCommand(m) THEN m.words ELSE <<>>

\* ----------------------------------------------------------------- dispatch
Cmd(name, callback) == [kind |-> "command", name |-> name, callback |-> callback]

\* The handler table with the catch-all added first.
HandlersCatchAllFirst ==
    << [kind |-> "anycommand", name |-> "", callback |-> "unknown"],
       Cmd("start", "start"),
       Cmd("help", "help_command"),
       Cmd("cari", "search_music"),
       Cmd("album", "album_menu"),
       Cmd("getalbum", "get_album_details"),
       Cmd("randomalbum", "get_random_albums"),
       Cmd("getnewreleases", "get_new_releases"),
       Cmd("artist", "artist_menu"),
       Cmd("getartist", "get_artist_details"),
       Cmd("randomartist", "get_random_artists"),
       Cmd("getartistalbums", "get_artist_albums"),
       Cmd("gettoptracks", "get_artist_top_tracks"),
       Cmd("getrelated", "get_related_artists"),
       [kind |-> "text", name |-> "", callback |-> "search_music"] >>

\* The handlers in the order main() adds them.
Handlers ==
    << Cmd("start", "start"),
       Cmd("help", "help_command"),
       Cmd("cari", "search_music"),
       Cmd("album", "album_menu"),
       Cmd("getalbum", "get_album_details"),
       Cmd("randomalbum", "get_random_albums"),
       Cmd("getnewreleases", "get_new_releases"),
       Cmd("artist", "artist_menu"),
       Cmd("getartist", "get_artist_details"),
       Cmd("randomartist", "get_random_artists"),
       Cmd("getartistalbums", "get_artist_albums"),
       Cmd("gettoptracks", "get_artist_top_tracks"),
       Cmd("getrelated", "get_related_artists"),
       [kind |-> "text", name |-> "", callback |-> "search_music"],
       [kind |-> "anycommand", name |-> "", callback |-> "unknown"] >>

\* handler.check_update(update)
CheckUpdate(hd, m) ==
    CASE hd.kind = "command"    -> IsCommand(m) /\ m.cmd = hd.name
      [] hd.kind = "text"       -> Text(m) # <<>> /\ ~IsCommand(m)
      [] hd.kind = "anycommand" -> IsCommand(m)

\* Application.process_update: all handlers are in one group, and in a
\* group the first handler that accepts the update is the only one run.
Dispatched(m) ==
    LET hits == {k \in 1..Len(Handlers) : CheckUpdate(Handlers[k], m)}
    IN  IF hits = {} THEN <<>>
        ELSE <<Handlers[CHOOSE k \in hits : \A j \in hits : k <= j].callback>>

\* ------------------------------------------------------- outbound messages
Field(src, raw, ins) == [src |-> src, raw |-> raw, ins |-> ins]

\* a field passed through escape_markdown(..., version=2)
Esc(src, raw) == Field(src, raw, escape_markdown(raw, ""))

\* a field interpolated as it is
Raw(src, raw) == Field(src, raw, raw)

\* str(n)
Num(src, n) == Field(src, <<ToString(n)>>, <<ToString(n)>>)

NoRec == [kind |-> "none"]

SendEv(via, mode, tmpl, fields, photo, rec) ==
    [ev |-> "send", via |-> via, mode |-> mode, tmpl |-> tmpl,
     fields |-> fields, photo |-> photo, rec |-> rec]

\* update.message.reply_text(text) without parse_mode
Plain(tmpl, fields) == SendEv("reply_text", "", tmpl, fields, "", NoRec)

\* update.message.reply_text(text, parse_mode='MarkdownV2')
Md2(tmpl, fields) == SendEv("reply_text", "MarkdownV2", tmpl, fields, "", NoRec)

\* The result of one step of a handler: where it goes on, its locals and
\* what it did on the way.
Result(p, l, ev) == [pc |-> p, l |-> l, ev |-> ev]

Done(l, ev) == Result("done", l, ev)

\* The local variables of a handler.
EmptyFrame == [query |-> <<>>, items |-> <<>>, idx |-> 0]

NamesOf(artists) == [k \in 1..Len(artists) |-> artists[k].name]

GenresText(genres) ==
    IF Join(genres, CommaSep) # <<>> THEN Join(genres, CommaSep)
    ELSE <<"Tidak ada genre">>

\* send_album_info delivering the caption twice, as photo and as text.
SendAlbumInfoBoth(album) ==
    LET album_cover_url ==
            IF album.images # <<>> THEN album.images[1].url ELSE ""
        fields == << Esc("name", album.name),
                     Esc("artists", Join(NamesOf(album.artists), CommaSep)),
                     Esc("release_date", album.release_date),
                     Raw("url", album.external_urls.spotify) >>
        rec == [kind |-> "album", item |-> album]
    IN  << SendEv("send_photo", "MarkdownV2", "album", fields,
                  album_cover_url, rec),
           SendEv("reply_text", "MarkdownV2", "album", fields, "", rec) >>

send_album_info(album) ==
    LET album_name == Esc("name", album.name)
        artists == Esc("artists", Join(NamesOf(album.artists), CommaSep))
        spotify_url == Raw("url", album.external_urls.spotify)
        album_cover_url ==
            IF album.images # <<>> THEN album.images[1].url ELSE ""
        release_date == Esc("release_date", album.release_date)
        fields == <<album_name, artists, release_date, spotify_url>>
        rec == [kind |-> "album", item |-> album]
    IN  IF album_cover_url # ""
        THEN <<SendEv("send_photo", "MarkdownV2", "album", fields,
                      album_cover_url, rec)>>
        ELSE <<SendEv("reply_text", "MarkdownV2", "album", fields, "", rec)>>

send_artist_info(artist) ==
    LET artist_name == Esc("name", artist.name)
        spotify_url == Raw("url", artist.external_urls.spotify)
        artist_image_url ==
            IF artist.images # <<>> THEN artist.images[1].url ELSE ""
        genres == Esc("genres", GenresText(artist.genres))
        popularity == Num("popularity", artist.popularity)
        fields == <<artist_name, popularity, genres, spotify_url>>
        rec == [kind |-> "artist", item |-> artist]
    IN  IF artist_image_url # ""
        THEN <<SendEv("send_photo", "MarkdownV2", "artist", fields,
                      artist_image_url, rec)>>
        ELSE <<SendEv("reply_text", "MarkdownV2", "artist", fields, "", rec)>>

send_track_info(track) ==
    LET track_name == Esc("name", track.name)
        artists == Esc("artists", Join(NamesOf(track.artists), CommaSep))
        album_name == Esc("album_name", track.album.name)
        spotify_url == Raw("url", track.external_urls.spotify)
        album_cover_url ==
            IF track.album.images # <<>> THEN track.album.images[1].url ELSE ""
        fields == <<track_name, artists, album_name, spotify_url>>
        rec == [kind |-> "track", item |-> track]
    IN  IF album_cover_url # ""
        THEN <<SendEv("send_photo", "MarkdownV2", "track", fields,
                      album_cover_url, rec)>>
        ELSE <<SendEv("reply_text", "MarkdownV2", "track", fields, "", rec)>>

\* ----------------------------------------------------------------- handlers
\* A handler is a coroutine.  Its positions are "start" (called, nothing
\* done yet), "try" (suspended in the await of the acknowledgment), "loop"
\* (suspended in the await of a send, more to send) and "done" (returned).
\* One step runs it from one position to the next await; the send it awaits
\* there is the last event of the step.  r holds what the step draws from
\* outside: what the catalog holds for its first and second call (o1, o2)
\* and the random letter and offset (ch, off).

\* The formatter of each kind of record.
SendInfo(kind, item) ==
    CASE kind = "album"  -> send_album_info(item)
      [] kind = "artist" -> send_artist_info(item)
      [] kind = "track"  -> send_track_info(item)

\* A loop that fetches each item after the first from the catalog again
\* before sending it, the fetch failing.
ForEachRefetch(l, kind, pre) ==
    IF l.idx \notin 1..Len(l.items) THEN Done(l, pre)
    ELSE IF l.idx > 1
    THEN Done(l, pre \o <<CallEv("refetch", <<>>, "", 0, 0, "", Failing, Failing),
                          Plain("Maaf, terjadi kesalahan saat berkomunikasi dengan Spotify. Coba lagi nanti.",
                                <<>>)>>)
    ELSE Result(IF l.idx = Len(l.items) THEN "done" ELSE "loop",
                [l EXCEPT !.idx = @ + 1],
                pre \o SendInfo(kind, l.items[l.idx]))

\* for x in items: await send_<kind>_info(update, context, x)
\* One iteration; pre is what the step did before it.
ForEach(l, kind, pre) ==
    IF l.idx \notin 1..Len(l.items) THEN Done(l, pre)
    ELSE Result(IF l.idx = Len(l.items) THEN "done" ELSE "loop",
                [l EXCEPT !.idx = @ + 1],
                pre \o SendInfo(kind, l.items[l.idx]))

Begin(l, items) == [l EXCEPT !.items = items, !.idx = 1]

\* An except clause that logs and replies nothing.
ExceptSilent(l, pre, text) == Done(l, pre)

\* except Exception as e: logger.error(...); await reply_text(text)
\* pre is what the try block did before the exception was raised.
Except(l, pre, text) == Done(l, pre \o <<Plain(text, <<>>)>>)

\* user.mention_html(): the name html-escaped inside a link
html_escape(text) ==
    [k \in 1..Len(text) |->
        CASE text[k] = "<" -> "&lt;"
          [] text[k] = ">" -> "&gt;"
          [] text[k] = "&" -> "&amp;"
          [] OTHER -> text[k]]

FullName == <<"B", "<">>

start(p, m, l, r) ==
    Done(l, <<SendEv("reply_text", "HTML",
                     "Halo, {user.mention_html()}! Saya adalah bot musik multifungsi. ...",
                     <<Field("user", FullName, html_escape(FullName))>>,
                     "", NoRec)>>)

help_command(p, m, l, r) ==
    Done(l, <<Plain("Berikut cara menggunakan saya: ...", <<>>)>>)

album_menu(p, m, l, r) ==
    Done(l, <<SendEv("reply_text", "Markdown",
                     "Selamat datang di Menu Album! ...", <<>>, "", NoRec)>>)

artist_menu(p, m, l, r) ==
    Done(l, <<SendEv("reply_text", "Markdown",
                     "Selamat datang di Menu Artis! ...", <<>>, "", NoRec)>>)

unknown(p, m, l, r) ==
    Done(l, <<SendEv("send_message", "",
                     "Maaf, saya tidak mengerti perintah itu. Coba /help.",
                     <<>>, "", NoRec)>>)

search_music(p, m, l, r) ==
    CASE p = "start" ->
        IF Args(m) # <<>> \/ Text(m) # <<>>
        THEN LET query == IF Args(m) # <<>> THEN Join(Args(m), Space)
                          ELSE Text(m)
             IN  Result("try", [l EXCEPT !.query = query],
                        <<Plain("Mencari lagu '{query}' di Spotify...",
                                <<Raw("query", query)>>)>>)
        ELSE Done(l, <<Plain("Tolong berikan judul lagu atau nama artis untuk saya cari.",
                             <<>>)>>)
      [] p = "try" ->
        LET results == sp_search(r.o1, 5)
            call == CallEv("search", l.query, "track", 5, 0, "", r.o1, results)
            tracks == results.items
        IN  IF ~results.ok
            THEN Except(l, <<call>>, "Maaf, terjadi kesalahan saat berkomunikasi dengan Spotify. Coba lagi nanti.")
            ELSE IF tracks = <<>>
            THEN Done(l, <<call, Md2("Maaf, saya tidak dapat menemukan lagu untuk *'{safe_query}'*. Coba kata kunci lain.",
                                     <<Esc("query", l.query)>>)>>)
            ELSE ForEach(Begin(l, tracks), "track", <<call>>)
      [] p = "loop" -> ForEach(l, "track", <<>>)

GetAlbumDetailsNoFetch(p, m, l, r) ==
    CASE p = "start" ->
        IF Args(m) = <<>>
        THEN Done(l, <<Plain("Tolong berikan nama album. Contoh: /getalbum My Beautiful Dark Twisted Fantasy",
                             <<>>)>>)
        ELSE LET query == Join(Args(m), Space)
             IN  Result("try", [l EXCEPT !.query = query],
                        <<Plain("Mencari album '{query}'...",
                                <<Raw("query", query)>>)>>)
      [] p = "try" ->
        LET results == sp_search(r.o1, 1)
            call1 == CallEv("search", l.query, "album", 1, 0, "", r.o1, results)
            album_results == results.items
            album == album_results[1]
            fields == << Esc("name", album.name),
                         Esc("artists", Join(NamesOf(album.artists), CommaSep)),
                         Esc("release_date", album.release_date),
                         Num("total_tracks", album.total_tracks),
                         Esc("genres", GenresText(album.genres)),
                         Raw("url", album.external_urls.spotify) >>
            rec == [kind |-> "album", item |-> album]
        IN  IF ~results.ok
            THEN Except(l, <<call1>>, "Maaf, terjadi kesalahan saat mengambil detail album.")
            ELSE IF album_results = <<>>
            THEN Done(l, <<call1, Md2("Maaf, album *'{safe_query}'* tidak ditemukan.",
                                      <<Esc("query", l.query)>>)>>)
            ELSE IF album.images # <<>>
            THEN Done(l, <<call1, SendEv("send_photo", "MarkdownV2", "album_details",
                                         fields, album.images[1].url, rec)>>)
            ELSE Done(l, <<call1, SendEv("reply_text", "MarkdownV2", "album_details",
                                         fields, "", rec)>>)

get_album_details(p, m, l, r) ==
    CASE p = "start" ->
        IF Args(m) = <<>>
        THEN Done(l, <<Plain("Tolong berikan nama album. Contoh: /getalbum My Beautiful Dark Twisted Fantasy",
                             <<>>)>>)
        ELSE LET query == Join(Args(m), Space)
             IN  Result("try", [l EXCEPT !.query = query],
                        <<Plain("Mencari album '{query}'...",
                                <<Raw("query", query)>>)>>)
      [] p = "try" ->
        LET results == sp_search(r.o1, 1)
            call1 == CallEv("search", l.query, "album", 1, 0, "", r.o1, results)
            album_results == results.items
            album_id == album_results[1].id
            fetched == sp_album(r.o2, album_id)
            call2 == CallEv("album", <<>>, "", 0, 0, album_id, r.o2, fetched)
            album == fetched.items[1]
            album_name == Esc("name", album.name)
            artists == Esc("artists", Join(NamesOf(album.artists), CommaSep))
            release_date == Esc("release_date", album.release_date)
            total_tracks == Num("total_tracks", album.total_tracks)
            spotify_url == Raw("url", album.external_urls.spotify)
            genres == Esc("genres", GenresText(album.genres))
            album_cover_url ==
                IF album.images # <<>> THEN album.images[1].url ELSE ""
            fields == <<album_name, artists, release_date, total_tracks,
                        genres, spotify_url>>
            rec == [kind |-> "album", item |-> album]
            error == "Maaf, terjadi kesalahan saat mengambil detail album."
        IN  IF ~results.ok THEN Except(l, <<call1>>, error)
            ELSE IF album_results = <<>>
            THEN Done(l, <<call1, Md2("Maaf, album *'{safe_query}'* tidak ditemukan.",
                                      <<Esc("query", l.query)>>)>>)
            ELSE IF ~fetched.ok THEN Except(l, <<call1, call2>>, error)
            ELSE IF album_cover_url # ""
            THEN Done(l, <<call1, call2,
                           SendEv("send_photo", "MarkdownV2", "album_details",
                                  fields, album_cover_url, rec)>>)
            ELSE Done(l, <<call1, call2,
                           SendEv("reply_text", "MarkdownV2", "album_details",
                                  fields, "", rec)>>)

\* random.choice("abcdefghijklmnopqrstuvwxyz"): the first and the last letter
Letters == {"a", "z"}

\* random.randint(0, 500): the least and the greatest offset
Offsets == {0, 500}

GetRandomAlbumsNoCheck(p, m, l, r) ==
    CASE p = "start" ->
        Result("try", l, <<Plain("Mengambil 5 album acak...", <<>>)>>)
      [] p = "try" ->
        LET q == <<"year:2000-2025 track:", r.ch>>
            results == sp_search(r.o1, 5)
            call == CallEv("search", q, "album", 5, r.off, "", r.o1, results)
        IN  IF ~results.ok
            THEN Except(l, <<call>>, "Maaf, terjadi kesalahan saat mengambil album acak.")
            ELSE ForEach(Begin(l, results.items), "album", <<call>>)
      [] p = "loop" -> ForEach(l, "album", <<>>)

get_random_albums(p, m, l, r) ==
    CASE p = "start" ->
        Result("try", l, <<Plain("Mengambil 5 album acak...", <<>>)>>)
      [] p = "try" ->
        LET random_char == r.ch
            random_offset == r.off
            q == <<"year:2000-2025 track:", random_char>>
            results == sp_search(r.o1, 5)
            call == CallEv("search", q, "album", 5, random_offset, "", r.o1,
                           results)
            albums == results.items
        IN  IF ~results.ok
            THEN Except(l, <<call>>, "Maaf, terjadi kesalahan saat mengambil album acak.")
            ELSE IF albums = <<>>
            THEN Done(l, <<call, Plain("Gagal mendapatkan album acak, coba lagi!", <<>>)>>)
            ELSE ForEach(Begin(l, albums), "album", <<call>>)
      [] p = "loop" -> ForEach(l, "album", <<>>)

get_new_releases(p, m, l, r) ==
    CASE p = "start" ->
        Result("try", l, <<Plain("Menampilkan 5 rilis album terbaru...", <<>>)>>)
      [] p = "try" ->
        LET results == sp_new_releases(r.o1, 5)
            call == CallEv("new_releases", <<>>, "", 5, 0, "", r.o1, results)
            albums == results.items
        IN  IF ~results.ok
            THEN Except(l, <<call>>, "Maaf, terjadi kesalahan saat mengambil rilis terbaru.")
            ELSE ForEach(Begin(l, albums), "album", <<call>>)
      [] p = "loop" -> ForEach(l, "album", <<>>)

get_artist_details(p, m, l, r) ==
    CASE p = "start" ->
        IF Args(m) = <<>>
        THEN Done(l, <<Plain("Tolong berikan nama artis. Contoh: /getartist Tulus", <<>>)>>)
        ELSE LET query == Join(Args(m), Space)
             IN  Result("try", [l EXCEPT !.query = query],
                        <<Plain("Mencari artis '{query}'...",
                                <<Raw("query", query)>>)>>)
      [] p = "try" ->
        LET results == sp_search(r.o1, 1)
            call == CallEv("search", l.query, "artist", 1, 0, "", r.o1, results)
            artist_results == results.items
        IN  IF ~results.ok
            THEN Except(l, <<call>>, "Maaf, terjadi kesalahan saat mengambil detail artis.")
            ELSE IF artist_results = <<>>
            THEN Done(l, <<call, Md2("Maaf, artis *'{safe_query}'* tidak ditemukan.",
                                     <<Esc("query", l.query)>>)>>)
            ELSE Done(l, <<call>> \o send_artist_info(artist_results[1]))

get_random_artists(p, m, l, r) ==
    CASE p = "start" ->
        Result("try", l, <<Plain("Mengambil 5 artis acak...", <<>>)>>)
      [] p = "try" ->
        LET random_char == r.ch
            random_offset == r.off
            q == <<"artist:", random_char>>
            results == sp_search(r.o1, 5)
            call == CallEv("search", q, "artist", 5, random_offset, "", r.o1,
                           results)
            artists == results.items
        IN  IF ~results.ok
            THEN Except(l, <<call>>, "Maaf, terjadi kesalahan saat mengambil artis acak.")
            ELSE IF artists = <<>>
            THEN Done(l, <<call, Plain("Gagal mendapatkan artis acak, coba lagi!", <<>>)>>)
            ELSE ForEach(Begin(l, artists), "artist", <<call>>)
      [] p = "loop" -> ForEach(l, "artist", <<>>)

get_artist_albums(p, m, l, r) ==
    CASE p = "start" ->
        IF Args(m) = <<>>
        THEN Done(l, <<Plain("Tolong berikan nama artis. Contoh: /getartistalbums Coldplay", <<>>)>>)
        ELSE LET query == Join(Args(m), Space)
             IN  Result("try", [l EXCEPT !.query = query],
                        <<Plain("Mencari album dari '{query}'...",
                                <<Raw("query", query)>>)>>)
      [] p = "try" ->
        LET results == sp_search(r.o1, 1)
            call1 == CallEv("search", l.query, "artist", 1, 0, "", r.o1, results)
            artist_results == results.items
            artist_id == artist_results[1].id
            albums == sp_artist_albums(r.o2, 10)
            call2 == CallEv("artist_albums", <<>>, "album", 10, 0, artist_id,
                            r.o2, albums)
            error == "Maaf, terjadi kesalahan saat mengambil album artis."
        IN  IF ~results.ok THEN Except(l, <<call1>>, error)
            ELSE IF artist_results = <<>>
            THEN Done(l, <<call1, Md2("Maaf, artis *'{safe_query}'* tidak ditemukan.",
                                      <<Esc("query", l.query)>>)>>)
            ELSE IF ~albums.ok THEN Except(l, <<call1, call2>>, error)
            ELSE IF albums.items = <<>>
            THEN Done(l, <<call1, call2,
                           Md2("Artis *'{query}'* tidak memiliki album.",
                               <<Esc("query", l.query)>>)>>)
            ELSE ForEach(Begin(l, albums.items), "album", <<call1, call2>>)
      [] p = "loop" -> ForEach(l, "album", <<>>)

\* get_artist_top_tracks searching five artists and keying the second call
\* by the last of them.
GetArtistTopTracksLastMatch(p, m, l, r) ==
    CASE p = "start" ->
        IF Args(m) = <<>>
        THEN Done(l, <<Plain("Tolong berikan nama artis. Contoh: /gettoptracks Queen", <<>>)>>)
        ELSE LET query == Join(Args(m), Space)
             IN  Result("try", [l EXCEPT !.query = query],
                        <<Plain("Mencari lagu terpopuler dari '{query}'...",
                                <<Raw("query", query)>>)>>)
      [] p = "try" ->
        LET results == sp_search(r.o1, 5)
            call1 == CallEv("search", l.query, "artist", 5, 0, "", r.o1, results)
            artist_results == results.items
            artist_id == artist_results[Len(artist_results)].id
            top_tracks == sp_artist_top_tracks(r.o2)
            call2 == CallEv("artist_top_tracks", <<>>, "", 0, 0, artist_id,
                            r.o2, top_tracks)
            error == "Maaf, terjadi kesalahan saat mengambil lagu terpopuler."
        IN  IF ~results.ok THEN Except(l, <<call1>>, error)
            ELSE IF artist_results = <<>>
            THEN Done(l, <<call1, Md2("Maaf, artis *'{safe_query}'* tidak ditemukan.",
                                      <<Esc("query", l.query)>>)>>)
            ELSE IF ~top_tracks.ok THEN Except(l, <<call1, call2>>, error)
            ELSE IF top_tracks.items = <<>>
            THEN Done(l, <<call1, call2,
                           Md2("Tidak dapat menemukan lagu terpopuler untuk *'{query}'*.",
                               <<Esc("query", l.query)>>)>>)
            ELSE ForEach(Begin(l, top_tracks.items), "track",
                         <<call1, call2>>)
      [] p = "loop" -> ForEach(l, "track", <<>>)

get_artist_top_tracks(p, m, l, r) ==
    CASE p = "start" ->
        IF Args(m) = <<>>
        THEN Done(l, <<Plain("Tolong berikan nama artis. Contoh: /gettoptracks Queen", <<>>)>>)
        ELSE LET query == Join(Args(m), Space)
             IN  Result("try", [l EXCEPT !.query = query],
                        <<Plain("Mencari lagu terpopuler dari '{query}'...",
                                <<Raw("query", query)>>)>>)
      [] p = "try" ->
        LET results == sp_search(r.o1, 1)
            call1 == CallEv("search", l.query, "artist", 1, 0, "", r.o1, results)
            artist_results == results.items
            artist_id == artist_results[1].id
            top_tracks == sp_artist_top_tracks(r.o2)
            call2 == CallEv("artist_top_tracks", <<>>, "", 0, 0, artist_id,
                            r.o2, top_tracks)
            error == "Maaf, terjadi kesalahan saat mengambil lagu terpopuler."
        IN  IF ~results.ok THEN Except(l, <<call1>>, error)
            ELSE IF artist_results = <<>>
            THEN Done(l, <<call1, Md2("Maaf, artis *'{safe_query}'* tidak ditemukan.",
                                      <<Esc("query", l.query)>>)>>)
            ELSE IF ~top_tracks.ok THEN Except(l, <<call1, call2>>, error)
            ELSE IF top_tracks.items = <<>>
            THEN Done(l, <<call1, call2,
                           Md2("Tidak dapat menemukan lagu terpopuler untuk *'{query}'*.",
                               <<Esc("query", l.query)>>)>>)
            ELSE ForEach(Begin(l, top_tracks.items), "track",
                         <<call1, call2>>)
      [] p = "loop" -> ForEach(l, "track", <<>>)

\* A slice that keeps the whole list.
NoSlice(s) == s

\* related_artists['artists'][:5]
FirstFive(s) == Take(s, 5)

get_related_artists(p, m, l, r) ==
    CASE p = "start" ->
        IF Args(m) = <<>>
        THEN Done(l, <<Plain("Tolong berikan nama artis. Contoh: /getrelated Daft Punk", <<>>)>>)
        ELSE LET query == Join(Args(m), Space)
             IN  Result("try", [l EXCEPT !.query = query],
                        <<Plain("Mencari artis yang terkait dengan '{query}'...",
                                <<Raw("query", query)>>)>>)
      [] p = "try" ->
        LET results == sp_search(r.o1, 1)
            call1 == CallEv("search", l.query, "artist", 1, 0, "", r.o1, results)
            artist_results == results.items
            artist_id == artist_results[1].id
            related_artists == sp_artist_related_artists(r.o2)
            call2 == CallEv("artist_related_artists", <<>>, "", 0, 0, artist_id,
                            r.o2, related_artists)
            error == "Maaf, terjadi kesalahan saat mengambil artis terkait."
        IN  IF ~results.ok THEN Except(l, <<call1>>, error)
            ELSE IF artist_results = <<>>
            THEN Done(l, <<call1, Md2("Maaf, artis *'{safe_query}'* tidak ditemukan.",
                                      <<Esc("query", l.query)>>)>>)
            ELSE IF ~related_artists.ok THEN Except(l, <<call1, call2>>, error)
            ELSE IF related_artists.items = <<>>
            THEN Done(l, <<call1, call2,
                           Md2("Tidak dapat menemukan artis terkait untuk *'{query}'*.",
                               <<Esc("query", l.query)>>)>>)
            ELSE Result("loop", Begin(l, FirstFive(related_artists.items)),
                        <<call1, call2,
                          Md2("Berikut 5 artis yang mirip dengan *{query}*:",
                              <<Esc("query", l.query)>>)>>)
      [] p = "loop" -> ForEach(l, "artist", <<>>)

\* The callback of each name.
HandlerStep(cb, p, m, l, r) ==
    CASE cb = "start"                 -> start(p, m, l, r)
      [] cb = "help_command"          -> help_command(p, m, l, r)
      [] cb = "search_music"          -> search_music(p, m, l, r)
      [] cb = "album_menu"            -> album_menu(p, m, l, r)
      [] cb = "get_album_details"     -> get_album_details(p, m, l, r)
      [] cb = "get_random_albums"     -> get_random_albums(p, m, l, r)
      [] cb = "get_new_releases"      -> get_new_releases(p, m, l, r)
      [] cb = "artist_menu"           -> artist_menu(p, m, l, r)
      [] cb = "get_artist_details"    -> get_artist_details(p, m, l, r)
      [] cb = "get_random_artists"    -> get_random_artists(p, m, l, r)
      [] cb = "get_artist_albums"     -> get_artist_albums(p, m, l, r)
      [] cb = "get_artist_top_tracks" -> get_artist_top_tracks(p, m, l, r)
      [] cb = "get_related_artists"   -> get_related_artists(p, m, l, r)
      [] cb = "unknown"               -> unknown(p, m, l, r)

\* ------------------------------------------------------------ state machine
\* pc[i]    position of invocation i: "idle" before its first update, then
\*          the positions of its handler
\* msg[i]   the update it was called with
\* disp[i]  the callbacks the dispatcher selected for that update
\* frame[f] the local variables kept in frame f
\* hist[i]  what invocation i did so far: catalog calls and sends, in order

\* All invocations keeping their locals in one module-level place.
SharedFrame(i) == 1

\* Every call of a handler has its own locals.
Frame(i) == i

Init ==
    /\ pc = [i \in Inv |-> "idle"]
    /\ msg = [i \in Inv |-> NoMsg]
    /\ disp = [i \in Inv |-> <<>>]
    /\ frame = [i \in Inv |-> EmptyFrame]
    /\ hist = [i \in Inv |-> <<>>]

\* The application takes the next update for slot i and calls the handler the
\* dispatcher selects; an update no handler accepts is dropped.
ProcessUpdate(i, M) ==
    /\ pc[i] \in {"idle", "done"}
    /\ \E m \in M :
        /\ msg' = [msg EXCEPT ![i] = m]
        /\ disp' = [disp EXCEPT ![i] = Dispatched(m)]
        /\ pc' = [pc EXCEPT ![i] = IF Dispatched(m) = <<>> THEN "idle" ELSE "start"]
        /\ frame' = [frame EXCEPT ![Frame(i)] = EmptyFrame]
        /\ hist' = [hist EXCEPT ![i] = <<>>]

Running(i, cb) ==
    /\ pc[i] \in {"start", "try", "loop"}
    /\ disp[i] # <<>>
    /\ disp[i][1] = cb

NoDraw == [o1 |-> Failing, o2 |-> Failing, ch |-> "a", off |-> 0]

\* What a step of invocation i may draw from outside: only the step that
\* runs the try block calls the catalog and the random generator.
Draws(i, O1, O2, L, F) ==
    IF pc[i] = "try" THEN [o1 : O1, o2 : O2, ch : L, off : F] ELSE {NoDraw}

Apply(i, res) ==
    /\ pc' = [pc EXCEPT ![i] = res.pc]
    /\ frame' = [frame EXCEPT ![Frame(i)] = res.l]
    /\ hist' = [hist EXCEPT ![i] = @ \o res.ev]
    /\ UNCHANGED <<msg, disp>>

Start(i) ==
    /\ Running(i, "start")
    /\ Apply(i, start(pc[i], msg[i], frame[Frame(i)], NoDraw))

HelpCommand(i) ==
    /\ Running(i, "help_command")
    /\ Apply(i, help_command(pc[i], msg[i], frame[Frame(i)], NoDraw))

AlbumMenu(i) ==
    /\ Running(i, "album_menu")
    /\ Apply(i, album_menu(pc[i], msg[i], frame[Frame(i)], NoDraw))

ArtistMenu(i) ==
    /\ Running(i, "artist_menu")
    /\ Apply(i, artist_menu(pc[i], msg[i], frame[Frame(i)], NoDraw))

Unknown(i) ==
    /\ Running(i, "unknown")
    /\ Apply(i, unknown(pc[i], msg[i], frame[Frame(i)], NoDraw))

SearchMusic(i, W) ==
    /\ Running(i, "search_music")
    /\ \E r \in Draws(i, W.tracks, {Failing}, {"a"}, {0}) :
        Apply(i, search_music(pc[i], msg[i], frame[Frame(i)], r))

GetAlbumDetails(i, W) ==
    /\ Running(i, "get_album_details")
    /\ \E r \in Draws(i, W.albums, W.albums, {"a"}, {0}) :
        Apply(i, get_album_details(pc[i], msg[i], frame[Frame(i)], r))

GetRandomAlbums(i, W) ==
    /\ Running(i, "get_random_albums")
    /\ \E r \in Draws(i, W.albums, {Failing}, Letters, Offsets) :
        Apply(i, get_random_albums(pc[i], msg[i], frame[Frame(i)], r))

GetNewReleases(i, W) ==
    /\ Running(i, "get_new_releases")
    /\ \E r \in Draws(i, W.albums, {Failing}, {"a"}, {0}) :
        Apply(i, get_new_releases(pc[i], msg[i], frame[Frame(i)], r))

GetArtistDetails(i, W) ==
    /\ Running(i, "get_artist_details")
    /\ \E r \in Draws(i, W.artists, {Failing}, {"a"}, {0}) :
        Apply(i, get_artist_details(pc[i], msg[i], frame[Frame(i)], r))

GetRandomArtists(i, W) ==
    /\ Running(i, "get_random_artists")
    /\ \E r \in Draws(i, W.artists, {Failing}, Letters, Offsets) :
        Apply(i, get_random_artists(pc[i], msg[i], frame[Frame(i)], r))

GetArtistAlbums(i, W) ==
    /\ Running(i, "get_artist_albums")
    /\ \E r \in Draws(i, W.artists, W.albums, {"a"}, {0}) :
        Apply(i, get_artist_albums(pc[i], msg[i], frame[Frame(i)], r))

GetArtistTopTracks(i, W) ==
    /\ Running(i, "get_artist_top_tracks")
    /\ \E r \in Draws(i, W.artists, W.tracks, {"a"}, {0}) :
        Apply(i, get_artist_top_tracks(pc[i], msg[i], frame[Frame(i)], r))

GetRelatedArtists(i, W) ==
    /\ Running(i, "get_related_artists")
    /\ \E r \in Draws(i, W.artists, W.artists, {"a"}, {0}) :
        Apply(i, get_related_artists(pc[i], msg[i], frame[Frame(i)], r))

\* Application.builder().token(...).build() leaves concurrent_updates off:
\* one update is handled at a time.
Next ==
    \/ ProcessUpdate(1, Messages)
    \/ Start(1)
    \/ HelpCommand(1)
    \/ AlbumMenu(1)
    \/ ArtistMenu(1)
    \/ Unknown(1)
    \/ SearchMusic(1, Rich)
    \/ GetAlbumDetails(1, Rich)
    \/ GetRandomAlbums(1, Rich)
    \/ GetNewReleases(1, Rich)
    \/ GetArtistDetails(1, Rich)
    \/ GetRandomArtists(1, Rich)
    \/ GetArtistAlbums(1, Rich)
    \/ GetArtistTopTracks(1, Rich)
    \/ GetRelatedArtists(1, Rich)

Spec == Init /\ [][Next]_vars

\* The transport running handlers of several updates together, interleaved
\* at their awaits.
NextConc ==
    \E i \in Inv :
        \/ ProcessUpdate(i, ConcMessages)
        \/ Start(i)
        \/ HelpCommand(i)
        \/ AlbumMenu(i)
        \/ ArtistMenu(i)
        \/ Unknown(i)
        \/ SearchMusic(i, Small)
        \/ GetAlbumDetails(i, Small)
        \/ GetRandomAlbums(i, Small)
        \/ GetNewReleases(i, Small)
        \/ GetArtistDetails(i, Small)
        \/ GetRandomArtists(i, Small)
        \/ GetArtistAlbums(i, Small)
        \/ GetArtistTopTracks(i, Small)
        \/ GetRelatedArtists(i, Small)

SpecConc == Init /\ [][NextConc]_vars

\* ------------------------------------------------------ reading the history
IsCall(e) == e.ev = "call"
IsSend(e) == e.ev = "send"

Calls(i) == SelectSeq(hist[i], IsCall)
Sends(i) == SelectSeq(hist[i], IsSend)

Cb(i) == disp[i][1]

Last(s) == s[Len(s)]

AllOk(i) == \A k \in 1..Len(Calls(i)) : Calls(i)[k].resp.ok

SomeFailed(i) == \E k \in 1..Len(Calls(i)) : ~Calls(i)[k].resp.ok

IsResult(e) == e.ev = "send" /\ e.rec.kind # "none"

ResultSends(i) == SelectSeq(hist[i], IsResult)

UsageTexts ==
    {"Tolong berikan judul lagu atau nama artis untuk saya cari.",
     "Tolong berikan nama album. Contoh: /getalbum My Beautiful Dark Twisted Fantasy",
     "Tolong berikan nama artis. Contoh: /getartist Tulus",
     "Tolong berikan nama artis. Contoh: /getartistalbums Coldplay",
     "Tolong berikan nama artis. Contoh: /gettoptracks Queen",
     "Tolong berikan nama artis. Contoh: /getrelated Daft Punk"}

ErrorTexts ==
    {"Maaf, terjadi kesalahan saat berkomunikasi dengan Spotify. Coba lagi nanti.",
     "Maaf, terjadi kesalahan saat mengambil detail album.",
     "Maaf, terjadi kesalahan saat mengambil album acak.",
     "Maaf, terjadi kesalahan saat mengambil rilis terbaru.",
     "Maaf, terjadi kesalahan saat mengambil detail artis.",
     "Maaf, terjadi kesalahan saat mengambil artis acak.",
     "Maaf, terjadi kesalahan saat mengambil album artis.",
     "Maaf, terjadi kesalahan saat mengambil lagu terpopuler.",
     "Maaf, terjadi kesalahan saat mengambil artis terkait."}

NotFoundTexts ==
    {"Maaf, saya tidak dapat menemukan lagu untuk *'{safe_query}'*. Coba kata kunci lain.",
     "Maaf, album *'{safe_query}'* tidak ditemukan.",
     "Gagal mendapatkan album acak, coba lagi!",
     "Maaf, artis *'{safe_query}'* tidak ditemukan.",
     "Gagal mendapatkan artis acak, coba lagi!",
     "Artis *'{query}'* tidak memiliki album.",
     "Tidak dapat menemukan lagu terpopuler untuk *'{query}'*.",
     "Tidak dapat menemukan artis terkait untuk *'{query}'*."}

IsError(e) == e.ev = "send" /\ e.tmpl \in ErrorTexts

IsNotFound(e) == e.ev = "send" /\ e.tmpl \in NotFoundTexts

IsPhoto(e) == e.ev = "send" /\ e.via = "send_photo"

\* ------------------------------------------------------------------- C1
ArgCommands == {"cari", "getalbum", "getartist", "getartistalbums",
                "gettoptracks", "getrelated"}

EmptyArg(i) == msg[i].cmd \in ArgCommands /\ msg[i].words = <<>>

\* C1: a command that requires an argument, invoked with an empty argument,
\* issues no catalog call and ends with a usage message as its only reply.
EmptyArgumentYieldsUsageOnly ==
    \A i \in Inv :
        (pc[i] # "idle" /\ EmptyArg(i)) =>
            /\ Calls(i) = <<>>
            /\ pc[i] = "done" =>
                /\ Len(hist[i]) = 1
                /\ hist[i][1].tmpl \in UsageTexts

\* ------------------------------------------------------------------- C2
RandomAlbumEmpty(i) ==
    /\ pc[i] = "done"
    /\ Cb(i) = "get_random_albums"
    /\ Len(Calls(i)) = 1
    /\ Calls(i)[1].resp.ok
    /\ Calls(i)[1].resp.items = <<>>

\* C2 as stated: randomalbum on a catalog answer of zero items produces
\* exactly one reply, "Gagal mendapatkan album acak, coba lagi!", and no image.
RandomAlbumEmptySingleReply ==
    \A i \in Inv :
        RandomAlbumEmpty(i) =>
            /\ Len(Sends(i)) = 1
            /\ Sends(i)[1].tmpl = "Gagal mendapatkan album acak, coba lagi!"
            /\ SelectSeq(hist[i], IsPhoto) = <<>>

\* C2 amended: randomalbum on a catalog answer of zero items, for any seed
\* letter and offset, produces exactly two replies, the acknowledgment
\* "Mengambil 5 album acak..." and then "Gagal mendapatkan album acak, coba
\* lagi!", both as plain text, and sends no image.
RandomAlbumEmptyAckThenFailure ==
    \A i \in Inv :
        RandomAlbumEmpty(i) =>
            /\ Len(Sends(i)) = 2
            /\ Sends(i)[1].tmpl = "Mengambil 5 album acak..."
            /\ Sends(i)[2].tmpl = "Gagal mendapatkan album acak, coba lagi!"
            /\ \A k \in 1..2 : Sends(i)[k].via = "reply_text"
            /\ SelectSeq(hist[i], IsPhoto) = <<>>
            /\ Last(hist[i]) = Sends(i)[2]

RandomAlbumEmptyReached ==
    \E i \in Inv :
        /\ RandomAlbumEmpty(i)
        /\ Calls(i)[1].offset = 500
        /\ Calls(i)[1].q = <<"year:2000-2025 track:", "z">>

\* ------------------------------------------------------------------- C3
CatalogHandlers ==
    {"search_music", "get_album_details", "get_artist_details",
     "get_random_albums", "get_random_artists", "get_new_releases",
     "get_artist_albums", "get_artist_top_tracks", "get_related_artists"}

ZeroItems(i) ==
    /\ pc[i] = "done"
    /\ Cb(i) \in CatalogHandlers
    /\ Calls(i) # <<>>
    /\ AllOk(i)
    /\ Last(Calls(i)).resp.items = <<>>

\* C3: in every handler that queries the catalog, an answer of zero items
\* makes the invocation send the handler's "not found"/"try again" message
\* and not the generic error reply.
ZeroItemsRouteToNotFound ==
    \A i \in Inv :
        ZeroItems(i) =>
            /\ SelectSeq(hist[i], IsNotFound) # <<>>
            /\ SelectSeq(hist[i], IsError) = <<>>

\* ------------------------------------------------------------------- C4
Capped == {"search_music", "get_random_albums", "get_random_artists",
           "get_new_releases", "get_related_artists", "get_artist_albums"}

Cap(cb) == IF cb = "get_artist_albums" THEN 10 ELSE 5

ListReturned(i) ==
    /\ pc[i] = "done"
    /\ Cb(i) \in Capped
    /\ Calls(i) # <<>>
    /\ AllOk(i)

CatalogFailureCaughtOnce ==
    \A i \in Inv :
        SomeFailed(i) =>
            /\ pc[i] = "done"
            /\ Len(SelectSeq(hist[i], IsError)) = 1
            /\ IsError(Last(hist[i]))
            /\ \A k \in 1..Len(Calls(i)) :
                  ~Calls(i)[k].resp.ok => k = Len(Calls(i))
            /\ SelectSeq(hist[i], IsResult) = <<>>
            /\ ENABLED ProcessUpdate(i, Messages)

SecondCallFailedReached ==
    \E i \in Inv :
        /\ Len(Calls(i)) = 2
        /\ Calls(i)[1].resp.ok
        /\ ~Calls(i)[2].resp.ok
        /\ Cb(i) = "get_related_artists"

\* ------------------------------------------------------------------- C6
OwnHandler(c) ==
    CASE c = "start"           -> "start"
      [] c = "help"            -> "help_command"
      [] c = "cari"            -> "search_music"
      [] c = "album"           -> "album_menu"
      [] c = "getalbum"        -> "get_album_details"
      [] c = "randomalbum"     -> "get_random_albums"
      [] c = "getnewreleases"  -> "get_new_releases"
      [] c = "artist"          -> "artist_menu"
      [] c = "getartist"       -> "get_artist_details"
      [] c = "randomartist"    -> "get_random_artists"
      [] c = "getartistalbums" -> "get_artist_albums"
      [] c = "gettoptracks"    -> "get_artist_top_tracks"
      [] c = "getrelated"      -> "get_related_artists"

ExpectedHandler(m) ==
    IF m.cmd = "" THEN "search_music"
    ELSE IF m.cmd \in Registered THEN OwnHandler(m.cmd)
    ELSE "unknown"

\* C6: every incoming text message is dispatched to exactly one handler: a
\* registered command to its own handler, free text to the search handler,
\* any other command to the catch-all, which replies with the fixed "command
\* not understood" message and calls no catalog API.
DispatchedToExactlyOneHandler ==
    \A i \in Inv :
        msg[i] # NoMsg =>
            /\ Len(disp[i]) = 1
            /\ Cb(i) = ExpectedHandler(msg[i])
            /\ pc[i] # "idle"
            /\ Cb(i) = "unknown" =>
                /\ Calls(i) = <<>>
                /\ pc[i] = "done" =>
                    /\ Len(hist[i]) = 1
                    /\ hist[i][1].tmpl =
                         "Maaf, saya tidak mengerti perintah itu. Coba /help."

UnknownCommandAnsweredReached ==
    \E i \in Inv :
        /\ pc[i] = "done"
        /\ msg[i].cmd \in Unregistered
        /\ msg[i].words # <<>>
        /\ Cb(i) = "unknown"
        /\ Len(hist[i]) = 1

\* ------------------------------------------------------------------- C7
\* The records an invocation passes to the formatter, by its handler.
Passed(i) ==
    LET cb == Cb(i)
        c == Calls(i)
    IN  IF ~AllOk(i) THEN <<>>
        ELSE IF cb \in {"search_music", "get_random_albums",
                        "get_random_artists", "get_new_releases",
                        "get_artist_details"}
        THEN (IF Len(c) >= 1 THEN c[1].resp.items ELSE <<>>)
        ELSE IF cb \in {"get_album_details", "get_artist_albums",
                        "get_artist_top_tracks"}
        THEN (IF Len(c) >= 2 THEN c[2].resp.items ELSE <<>>)
        ELSE IF cb = "get_related_artists"
        THEN (IF Len(c) >= 2 THEN Take(c[2].resp.items, 5) ELSE <<>>)
        ELSE <<>>

ImagesOf(rec) ==
    IF rec.kind = "track" THEN rec.item.album.images ELSE rec.item.images

\* C7: for every record passed to the formatter exactly one message is sent:
\* an image with the caption if the record has at least one image reference,
\* otherwise the caption as formatted text; never both, never neither.
OneMessagePerRecord ==
    \A i \in Inv :
        pc[i] # "idle" =>
            LET R == ResultSends(i)
                P == Passed(i)
            IN  /\ Len(R) <= Len(P)
                /\ pc[i] = "done" => Len(R) = Len(P)
                /\ \A k \in 1..Len(R) :
                    /\ k <= Len(P)
                    /\ R[k].rec.item = P[k]
                    /\ R[k].mode = "MarkdownV2"
                    /\ IF ImagesOf(R[k].rec) # <<>>
                       THEN /\ R[k].via = "send_photo"
                            /\ R[k].photo = ImagesOf(R[k].rec)[1].url
                       ELSE /\ R[k].via = "reply_text"
                            /\ R[k].photo = ""

PhotoAndTextReached ==
    \E i \in Inv :
        /\ pc[i] = "done"
        /\ Cb(i) = "get_artist_albums"
        /\ Len(ResultSends(i)) >= 2
        /\ ResultSends(i)[1].via = "send_photo"
        /\ ResultSends(i)[2].via = "reply_text"

\* ------------------------------------------------------------------- C8
TextSources == {"query", "name", "artists", "album_name", "release_date",
                "genres", "url"}

\* What MarkdownV2 asks of an inserted text: a link target is escaped as a
\* text_link, any other text as plain text.
EscapedFor(f) ==
    f.ins = escape_markdown(f.raw, IF f.src = "url" THEN "text_link" ELSE "")

\* C8: in every outbound message that is parsed as markup, each inserted
\* piece of user-supplied text (the query) and of catalog-supplied text
\* (names, release date, genres, external link) has been markup-escaped.
EveryInsertedTextEscaped ==
    \A i \in Inv :
        \A k \in 1..Len(hist[i]) :
            (hist[i][k].ev = "send" /\ hist[i][k].mode = "MarkdownV2") =>
                \A n \in 1..Len(hist[i][k].fields) :
                    hist[i][k].fields[n].src \in TextSources =>
                        EscapedFor(hist[i][k].fields[n])

\* ------------------------------------------------------------------- C10
BestMatchFound(i, cb) ==
    /\ pc[i] = "done"
    /\ Cb(i) = cb
    /\ Calls(i) # <<>>
    /\ Calls(i)[1].resp.ok
    /\ Calls(i)[1].resp.items # <<>>

FetchesDetailById(i, api) ==
    /\ Len(Calls(i)) = 2
    /\ Calls(i)[1].api = "search"
    /\ Calls(i)[1].limit = 1
    /\ Calls(i)[2].api = api
    /\ Calls(i)[2].id = Calls(i)[1].resp.items[1].id
    /\ hist[i][2] = Calls(i)[1]
    /\ hist[i][3] = Calls(i)[2]
    /\ Calls(i)[2].resp.ok =>
        /\ Len(ResultSends(i)) = 1
        /\ Last(hist[i]) = ResultSends(i)[1]
        /\ ResultSends(i)[1].rec.item = Calls(i)[2].resp.items[1]

\* C10 as stated: getalbum and getartist both take the first item of a
\* limit-1 search and then fetch its full detail by identifier in a second
\* catalog call before sending the caption.
BothFetchDetailById ==
    \A i \in Inv :
        /\ BestMatchFound(i, "get_album_details") => FetchesDetailById(i, "album")
        /\ BestMatchFound(i, "get_artist_details") => FetchesDetailById(i, "artist")

\* C10 amended: getalbum takes the first item of a limit-1 album search and
\* fetches its full detail by identifier in a second catalog call before
\* sending the caption of the fetched album; getartist makes the limit-1
\* artist search its only catalog call and sends the caption of the first
\* item of that search.
AlbumFetchesDetailArtistDoesNot ==
    \A i \in Inv :
        /\ BestMatchFound(i, "get_album_details") =>
            /\ FetchesDetailById(i, "album")
            /\ Calls(i)[1].typ = "album"
        /\ BestMatchFound(i, "get_artist_details") =>
            /\ Len(Calls(i)) = 1
            /\ Calls(i)[1].api = "search"
            /\ Calls(i)[1].typ = "artist"
            /\ Calls(i)[1].limit = 1
            /\ Len(ResultSends(i)) = 1
            /\ Last(hist[i]) = ResultSends(i)[1]
            /\ ResultSends(i)[1].rec.item = Calls(i)[1].resp.items[1]

AlbumDetailFetchedReached ==
    \E i \in Inv :
        /\ BestMatchFound(i, "get_album_details")
        /\ Len(Calls(i)) = 2
        /\ Calls(i)[2].resp.ok
        /\ Calls(i)[2].resp.items[1] # Calls(i)[1].resp.items[1]
        /\ Len(ResultSends(i)) = 1

\* ------------------------------------------------------------------- C9
RECURSIVE Run(_, _, _, _, _)
\* What the handler cb does when it runs alone from position p to its end
\* on the update m, drawing r.
Run(cb, p, m, l, r) ==
    IF p = "done" THEN <<>>
    ELSE LET res == HandlerStep(cb, p, m, l, r)
         IN  res.ev \o Run(cb, res.pc, m, res.l, r)

\* What the catalog held at the k-th call of invocation i.
WorldOf(i, k) == IF Len(Calls(i)) >= k THEN Calls(i)[k].world ELSE Failing

IsPrefix(s, t) == Len(s) <= Len(t) /\ SubSeq(t, 1, Len(s)) = s

\* C9: whatever the other invocations do and whether their catalog calls
\* fail, the catalog calls and replies of an invocation are those of its
\* handler running alone on the same update with the same catalog answers.
InvocationOutcomeIsItsOwn ==
    \A i \in Inv :
        pc[i] \in {"loop", "done"} =>
            \E c \in Letters, f \in Offsets :
                LET alone == Run(Cb(i), "start", msg[i], EmptyFrame,
                                 [o1 |-> WorldOf(i, 1), o2 |-> WorldOf(i, 2),
                                  ch |-> c, off |-> f])
                IN  /\ IsPrefix(hist[i], alone)
                    /\ pc[i] = "done" => hist[i] = alone

FailureBesideRunningReached ==
    \E i \in Inv, j \in Inv :
        /\ i # j
        /\ SomeFailed(i)
        /\ pc[j] = "loop"
        /\ ResultSends(j) # <<>>

\* ------------------------------------------------------------------- C11
ByArtistId == {"get_artist_albums", "get_artist_top_tracks",
               "get_related_artists"}

KeyedApi(cb) ==
    CASE cb = "get_artist_albums"     -> "artist_albums"
      [] cb = "get_artist_top_tracks" -> "artist_top_tracks"
      [] cb = "get_related_artists"   -> "artist_related_artists"

IsKeyedCall(e) == e.ev = "call" /\ e.api # "search"

\* C11: in getartistalbums, gettoptracks and getrelated the call keyed by an
\* identifier is made at most once, only after an artist search with limit 1
\* has returned a non-empty result, and with the identifier of the first
\* item of that result; after an artist search of zero items the invocation
\* makes no second catalog call.
KeyedCallFollowsBestMatch ==
    \A i \in Inv :
        (pc[i] # "idle" /\ Cb(i) \in ByArtistId) =>
            LET c == Calls(i)
            IN  /\ Len(c) <= 2
                /\ Len(SelectSeq(hist[i], IsKeyedCall)) <= 1
                /\ Len(c) >= 1 =>
                    /\ c[1].api = "search"
                    /\ c[1].typ = "artist"
                    /\ c[1].limit = 1
                    /\ Len(c[1].resp.items) <= 1
                    /\ c[1].q = Join(msg[i].words, Space)
                /\ Len(c) = 2 =>
                    /\ c[2].api = KeyedApi(Cb(i))
                    /\ c[1].resp.ok
                    /\ c[1].resp.items # <<>>
                    /\ c[2].id = c[1].world.items[1].id
                /\ (pc[i] = "done" /\ Len(c) >= 1 /\ c[1].resp.ok
                        /\ c[1].resp.items # <<>>) => Len(c) = 2
                /\ (Len(c) >= 1 /\ c[1].resp.items = <<>>) => Len(c) = 1

KeyedCallAfterSeveralMatchesReached ==
    \E i \in Inv :
        /\ pc[i] = "done"
        /\ Cb(i) = "get_artist_top_tracks"
        /\ Len(Calls(i)) = 2
        /\ Len(Calls(i)[1].world.items) >= 2
        /\ Calls(i)[1].world.items[2].id # Calls(i)[1].world.items[1].id
        /\ Calls(i)[2].resp.ok
        /\ ResultSends(i) # <<>>

\* ------------------------------------------------------------------- C12
\* C12: in every invocation all catalog calls come before the first result
\* message, and (sends not failing) no invocation delivers both a result
\* message and the generic error reply.
CallsPrecedeResults ==
    \A i \in Inv :
        /\ \A k \in 1..Len(hist[i]) : \A j \in 1..Len(hist[i]) :
              (k < j /\ IsResult(hist[i][k])) => ~IsCall(hist[i][j])
        /\ ~(ResultSends(i) # <<>> /\ SelectSeq(hist[i], IsError) # <<>>)

TwoCallsThenResultsReached ==
    \E i \in Inv :
        /\ pc[i] = "done"
        /\ Cb(i) = "get_artist_albums"
        /\ Len(Calls(i)) = 2
        /\ Len(ResultSends(i)) >= 2
        /\ IsCall(hist[i][2])
        /\ IsCall(hist[i][3])
        /\ IsResult(hist[i][4])

====
